---- MODULE Spec2Model ----
(***************************************************************************)
(* project-forge backend: the run orchestrator (app/services/runner.py),   *)
(* the result store rows it writes (app/models/orm.py,                     *)
(* app/services/results.py) and the cancel endpoint                        *)
(* (app/api/routes_backtest.py), as one state machine.                     *)
(*                                                                         *)
(* One backtest run is modelled.  The database rows are the shared state;  *)
(* run_backtest_run, the _execute_single_scenario tasks of a batch and the *)
(* cancel handler are coroutines that interleave at their awaits.  Every   *)
(* await on the database may raise; a raise takes the path the code gives  *)
(* it (the except clause of the task, or propagation out of run()).  A     *)
(* raise inside the cancel handler writes no row and is not a step here.   *)
(* A task never reads a row another coroutine writes, so the awaits of a   *)
(* task between two of its own commits are taken as one step.              *)
(***************************************************************************)
EXTENDS Integers, FiniteSets, Sequences, TLC

\* ---- bounds of the model ------------------------------------------------
MaxScenarios == 3
MaxParallel == 2
MaxRows == 1

VARIABLES
    total_scenarios,      \* BacktestRun.total_scenarios = len(request.scenarios)
    run_status,           \* BacktestRun.status, as stored
    completed_scenarios,  \* BacktestRun.completed_scenarios, as stored
    sc_status,            \* BacktestScenario.status, as stored, per scenario
    sc_error,             \* BacktestScenario.error is set, per scenario
    results,              \* number of BacktestResult rows stored, per scenario
    pc,                   \* position of run_backtest_run
    i,                    \* loop variable i of run_backtest_run (batch start)
    completed,            \* local counter completed of run_backtest_run
    failed,               \* local counter failed of run_backtest_run
    task,                 \* position / outcome of each _execute_single_scenario
    cancel_pc,            \* position of cancel_backtest_run
    cancel_scenarios,     \* scenarios selected by cancel_backtest_run
    cancel_reply,         \* last HTTP answer of cancel_backtest_run
    args,                 \* the scenario / the arguments of the function called
    ret                   \* what the runner or the function returned

vars == <<total_scenarios, run_status, completed_scenarios,
          sc_status, sc_error, results, pc, i, completed, failed, task,
          cancel_pc, cancel_scenarios, cancel_reply, args, ret>>

run_vars == <<pc, i, completed, failed>>
db_run_vars == <<run_status, completed_scenarios>>
db_scenario_vars == <<sc_status, sc_error, results>>
task_vars == <<task>>
cancel_vars == <<cancel_pc, cancel_scenarios, cancel_reply>>
call_vars == <<args, ret>>
param_vars == <<total_scenarios, call_vars>>

\* the argument max_parallel of run_backtest_run (line 233; every caller
\* leaves it at its default)
max_parallel == MaxParallel

\* the scenarios of the run, in the order the select of run() returns them
Scenarios == 1..total_scenarios

Min(a, b) == IF a < b THEN a ELSE b

RunStatuses == {"pending", "running", "completed", "failed", "cancelled"}
ScenarioStatuses == {"pending", "running", "completed", "failed", "cancelled"}
TaskStates == {"none", "new", "running", "saved", "ok", "err"}

TypeOK ==
    /\ total_scenarios \in 0..MaxScenarios
    /\ run_status \in RunStatuses
    /\ completed_scenarios \in Nat
    /\ sc_status \in [Scenarios -> ScenarioStatuses]
    /\ sc_error \in [Scenarios -> BOOLEAN]
    /\ results \in [Scenarios -> 0..MaxRows]
    /\ pc \in {"created", "load", "spawn", "gather", "final", "done", "aborted"}
    /\ i \in Nat /\ completed \in Nat /\ failed \in Nat
    /\ task \in [Scenarios -> TaskStates]
    /\ cancel_pc \in {"idle", "checked", "selected"}
    /\ cancel_scenarios \subseteq Scenarios
    /\ cancel_reply \in {"none", "cancelled", "rejected"}

\* create_backtest: the run row and its scenario rows, all pending, and the
\* background task run_backtest_run_task scheduled but not yet started.
Init ==
    /\ total_scenarios \in 0..MaxScenarios
    /\ run_status = "pending"
    /\ completed_scenarios = 0
    /\ sc_status = [s \in Scenarios |-> "pending"]
    /\ sc_error = [s \in Scenarios |-> FALSE]
    /\ results = [s \in Scenarios |-> 0]
    /\ pc = "created"
    /\ i = 0
    /\ completed = 0
    /\ failed = 0
    /\ task = [s \in Scenarios |-> "none"]
    /\ cancel_pc = "idle"
    /\ cancel_scenarios = {}
    /\ cancel_reply = "none"
    /\ args = <<>>
    /\ ret = <<>>

\* ---- _execute_single_scenario ------------------------------------------

\* the failure write filtered by the run instead of the scenario: every
\* scenario that is running is written failed
ExecuteFailedWholeRun(s) ==
    /\ sc_status' = [t \in Scenarios |->
                       IF t = s \/ sc_status[t] = "running" THEN "failed"
                                                           ELSE sc_status[t]]
    /\ sc_error' = [t \in Scenarios |->
                      (t = s \/ sc_status[t] = "running") \/ sc_error[t]]
    /\ task' = [task EXCEPT ![s] = "err"]
    /\ UNCHANGED results

\* except Exception (lines 209-226): rollback, re-select the scenario, write
\* failed and the error, commit; when that write raises too the error is only
\* logged and the row is left as it is.  The task returns (id, False, msg).
ExecuteFailed(s) ==
    /\ \/ /\ sc_status' = [sc_status EXCEPT ![s] = "failed"]
          /\ sc_error' = [sc_error EXCEPT ![s] = TRUE]
       \/ UNCHANGED <<sc_status, sc_error>>
    /\ task' = [task EXCEPT ![s] = "err"]
    /\ UNCHANGED results

\* lines 176-185: fetch the scenario, status = "running", commit
ExecuteClaim(s) ==
    /\ task[s] = "new"
    /\ \/ /\ sc_status' = [sc_status EXCEPT ![s] = "running"]
          /\ task' = [task EXCEPT ![s] = "running"]
          /\ UNCHANGED <<sc_error, results>>
       \/ ExecuteFailed(s)
    /\ UNCHANGED <<run_vars, db_run_vars, cancel_vars, param_vars>>

\* lines 188-200: run_backtest_scenario once per grouping type (the callers
\* pass the default, one grouping) returns its rows or raises; the rows are
\* kept in the local all_results until save_results (results.py 40-62: add_all,
\* flush, refresh, commit) stores them in one commit; with no rows
\* save_results is not called (line 199).  A raise of the runner or of
\* save_results before its commit leaves no row.
ExecuteRun(s) ==
    /\ task[s] = "running"
    /\ \/ \E all_results \in 0..MaxRows :
             /\ results' = [results EXCEPT ![s] = results[s] + all_results]
             /\ task' = [task EXCEPT ![s] = "saved"]
             /\ UNCHANGED <<sc_status, sc_error>>
       \/ ExecuteFailed(s)
    /\ UNCHANGED <<run_vars, db_run_vars, cancel_vars, param_vars>>

\* the completed write made before the runner was called and its rows saved
ExecuteCompleteUnsaved(s) ==
    /\ task[s] = "running"
    /\ sc_status' = [sc_status EXCEPT ![s] = "completed"]
    /\ task' = [task EXCEPT ![s] = "ok"]
    /\ UNCHANGED <<sc_error, results>>
    /\ UNCHANGED <<run_vars, db_run_vars, cancel_vars, param_vars>>

\* lines 203-207: status = "completed", commit, return (id, True, None)
ExecuteComplete(s) ==
    /\ task[s] = "saved"
    /\ \/ /\ sc_status' = [sc_status EXCEPT ![s] = "completed"]
          /\ task' = [task EXCEPT ![s] = "ok"]
          /\ UNCHANGED <<sc_error, results>>
       \/ ExecuteFailed(s)
    /\ UNCHANGED <<run_vars, db_run_vars, cancel_vars, param_vars>>

Settled(s) == task[s] \in {"ok", "err"}
Executing(s) == task[s] \in {"new", "running", "saved"}

\* ---- run_backtest_run ---------------------------------------------------

\* an exception raised by an await of run() itself leaves run(); the caller
\* run_backtest_run_task only logs it (routes_backtest.py 99-103)
RunRaises ==
    /\ pc' = "aborted"
    /\ UNCHANGED <<i, completed, failed, db_run_vars>>

\* lines 249-259: load the run, status = "running", commit
RunStart ==
    /\ pc = "created"
    /\ \/ /\ run_status' = "running"
          /\ pc' = "load"
          /\ UNCHANGED <<i, completed, failed, completed_scenarios>>
       \/ RunRaises
    /\ UNCHANGED <<db_scenario_vars, task_vars, cancel_vars, param_vars>>

\* an empty run reported as a success
EmptyRunCompleted == "completed"

\* line 274: the status written for a run without scenarios
EmptyRunStatus == "failed"

\* lines 264-276: select the scenarios; none: status = "failed", commit, return
RunLoad ==
    /\ pc = "load"
    /\ \/ /\ Scenarios = {}
          /\ run_status' = EmptyRunStatus
          /\ pc' = "done"
          /\ UNCHANGED <<i, completed, failed, completed_scenarios>>
       \/ /\ Scenarios # {}
          /\ pc' = "spawn"
          /\ UNCHANGED <<i, completed, failed, db_run_vars>>
       \/ RunRaises
    /\ UNCHANGED <<db_scenario_vars, task_vars, cancel_vars, param_vars>>

\* scenarios[i:i + max_parallel + 1], a slice one too long
BatchOneMore(start) == (start + 1)..Min(start + max_parallel + 1, total_scenarios)

\* line 284: batch = scenarios[i:i + max_parallel]
Batch(start) == (start + 1)..Min(start + max_parallel, total_scenarios)

\* lines 288-293: the tasks of the batch are handed to asyncio.gather
RunSpawn ==
    /\ pc = "spawn"
    /\ task' = [s \in Scenarios |-> IF s \in Batch(i) THEN "new" ELSE task[s]]
    /\ pc' = "gather"
    /\ UNCHANGED <<i, completed, failed, db_run_vars, db_scenario_vars,
                   cancel_vars, param_vars>>

\* asyncio.wait(..., return_when=FIRST_COMPLETED) in place of gather
GatherFirstCompleted(batch) == \E s \in batch : Settled(s)

\* line 293: gather returns when every task of the batch has returned
GatherDone(batch) == \A s \in batch : Settled(s)

\* completed_scenarios += completed in place of the assignment
ProgressAccumulated(stored, c) == stored + c

\* the scenarios still to succeed in place of those that did
ProgressRemaining(stored, c) == total_scenarios - c

\* lines 313 and 320: completed_scenarios = completed, the stored value is
\* replaced by the local counter of the succeeded scenarios
Progress(stored, c) == c

\* "completed" as soon as every scenario was processed
FinalStatusProcessed(c, f, t) == IF c + f = t THEN "completed" ELSE "failed"

\* line 319
FinalStatus(c, f, t) == IF f = 0 /\ c = t THEN "completed" ELSE "failed"

\* lines 296-316: one iteration of `for result in results`: count the result,
\* write the progress in a session of its own; after the last result of the
\* batch the for loop of line 283 goes on to the next batch or ends.
RunProcess ==
    /\ pc = "gather"
    /\ GatherDone(Batch(i))
    /\ LET r == completed + failed + 1
           c == IF task[r] = "ok" THEN completed + 1 ELSE completed
           f == IF task[r] = "ok" THEN failed ELSE failed + 1
       IN  /\ completed' = c
           /\ failed' = f
           /\ \/ /\ completed_scenarios' = Progress(completed_scenarios, c)
                 /\ IF r = Min(i + max_parallel, total_scenarios)
                       THEN /\ i' = i + max_parallel
                            /\ pc' = IF i + max_parallel < total_scenarios
                                        THEN "spawn" ELSE "final"
                       ELSE UNCHANGED <<i, pc>>
              \/ /\ pc' = "aborted"
                 /\ UNCHANGED <<i, completed_scenarios>>
    /\ UNCHANGED <<run_status, db_scenario_vars, task_vars, cancel_vars,
                   param_vars>>

\* lines 318-322: the final status, completed_scenarios, finished_at, commit
RunFinal ==
    /\ pc = "final"
    /\ \/ /\ run_status' = FinalStatus(completed, failed, total_scenarios)
          /\ completed_scenarios' = Progress(completed_scenarios, completed)
          /\ pc' = "done"
          /\ UNCHANGED <<i, completed, failed>>
       \/ RunRaises
    /\ UNCHANGED <<db_scenario_vars, task_vars, cancel_vars, param_vars>>

\* ---- cancel_backtest_run (routes_backtest.py 457-501) -------------------

\* the request going on to its writes whatever status it read
CancelCheckAnyStatus ==
    /\ cancel_pc = "idle"
    /\ cancel_pc' = "checked"
    /\ UNCHANGED <<cancel_reply, cancel_scenarios, run_vars, db_run_vars,
                   db_scenario_vars, task_vars, param_vars>>

\* lines 464-475: load the run; only a running or pending run is cancelled
CancelCheck ==
    /\ cancel_pc = "idle"
    /\ IF run_status \in {"running", "pending"}
          THEN /\ cancel_pc' = "checked"
               /\ UNCHANGED cancel_reply
          ELSE /\ cancel_reply' = "rejected"
               /\ UNCHANGED cancel_pc
    /\ UNCHANGED <<cancel_scenarios, run_vars, db_run_vars, db_scenario_vars,
                   task_vars, param_vars>>

\* lines 482-487: select the pending and running scenarios of the run
CancelSelect ==
    /\ cancel_pc = "checked"
    /\ cancel_scenarios' =
          {s \in Scenarios : sc_status[s] \in {"pending", "running"}}
    /\ cancel_pc' = "selected"
    /\ UNCHANGED <<cancel_reply, run_vars, db_run_vars, db_scenario_vars,
                   task_vars, param_vars>>

\* lines 478-479, 489-492: the run and the selected scenarios are written
\* cancelled in one commit
CancelCommit ==
    /\ cancel_pc = "selected"
    /\ run_status' = "cancelled"
    /\ sc_status' = [s \in Scenarios |->
                       IF s \in cancel_scenarios THEN "cancelled"
                                                 ELSE sc_status[s]]
    /\ cancel_pc' = "idle"
    /\ cancel_scenarios' = {}
    /\ cancel_reply' = "cancelled"
    /\ UNCHANGED <<completed_scenarios, sc_error, results, run_vars,
                   task_vars, param_vars>>

Next ==
    \/ RunStart
    \/ RunLoad
    \/ RunSpawn
    \/ RunProcess
    \/ RunFinal
    \/ \E s \in Scenarios : ExecuteClaim(s)
    \/ \E s \in Scenarios : ExecuteRun(s)
    \/ \E s \in Scenarios : ExecuteComplete(s)
    \/ CancelCheck
    \/ CancelSelect
    \/ CancelCommit

Spec == Init /\ [][Next]_vars

\* ---- properties of the run orchestrator ---------------------------------

Succeeded == {s \in Scenarios : task[s] = "ok"}
Failed == {s \in Scenarios : task[s] = "err"}

\* C1: the final write of run(), made after all batches, stores completed
\* exactly when no scenario task failed and the number of succeeded scenarios
\* equals total_scenarios, and stores failed in every other case.
C1_FinalStatusFromOutcomes ==
    [][(pc = "final" /\ pc' = "done") =>
          run_status' = IF Failed = {} /\ Cardinality(Succeeded) = total_scenarios
                           THEN "completed" ELSE "failed"]_vars

\* a run, never cancelled, that ended failed with one scenario succeeded and
\* one failed
C1_Witness ==
    /\ pc = "done"
    /\ cancel_reply = "none" /\ cancel_pc = "idle"
    /\ run_status = "failed"
    /\ Succeeded # {} /\ Failed # {}

\* C2: once cancel_run has stored cancelled, no later write replaces it.
C2_CancelledIsKept ==
    [][run_status = "cancelled" => run_status' = "cancelled"]_vars

\* C3: after each batch, and when the run has ended, the stored
\* completed_scenarios is the number of scenarios processed so far, succeeded
\* plus failed (all N of them at run end).
C3_ProgressCountsProcessed ==
    (pc \in {"spawn", "final", "done"} /\ Scenarios # {}) =>
        completed_scenarios = completed + failed

\* C4: the stored completed_scenarios never exceeds total_scenarios.
C4_CompletedAtMostTotal == completed_scenarios <= total_scenarios

\* every scenario of a run of at least two succeeded: the counter has reached
\* total_scenarios
C4_Witness ==
    /\ total_scenarios >= 2
    /\ pc = "done"
    /\ completed_scenarios = total_scenarios

\* the step in which the task of scenario s ends by its except clause
FailsNow(s) == task[s] # "err" /\ task'[s] = "err"

\* the rows of every scenario but s are left as they are, and so are the tasks
OthersUntouched(s) ==
    \A t \in Scenarios \ {s} :
        /\ sc_status'[t] = sc_status[t]
        /\ sc_error'[t] = sc_error[t]
        /\ results'[t] = results[t]
        /\ task'[t] = task[t]

ScenarioTransitions ==
    { <<"pending", "running">>, <<"running", "completed">>,
      <<"running", "failed">>, <<"pending", "cancelled">>,
      <<"running", "cancelled">> }

\* C6: a scenario's status changes only along pending->running,
\* running->completed, running->failed, pending or running->cancelled;
\* completed, failed and cancelled are never left.
C6_ScenarioStatusTransitions ==
    [][\A s \in Scenarios :
          sc_status'[s] # sc_status[s] =>
             <<sc_status[s], sc_status'[s]>> \in ScenarioTransitions]_vars

\* the batch a scenario belongs to, batches numbered from 0
BatchOf(s) == (s - 1) \div max_parallel

\* the task of s has gone past its claim of the scenario (line 185)
Claimed(s) == task[s] \in {"running", "saved", "ok", "err"}

\* C7: no scenario of a later batch is claimed before every task of the
\* earlier batches has settled.
C7_BatchesInSequence ==
    \A s, t \in Scenarios :
        (BatchOf(s) < BatchOf(t) /\ Claimed(t)) => Settled(s)

\* a scenario of the second batch is claimed, the first batch having settled
\* with one success and one failure
C7_Witness ==
    /\ \E t \in Scenarios : BatchOf(t) = 1 /\ task[t] = "running"
    /\ \E s \in Scenarios : BatchOf(s) = 0 /\ task[s] = "ok"
    /\ \E s \in Scenarios : BatchOf(s) = 0 /\ task[s] = "err"

\* C8: never more than max_parallel scenario tasks are executing.
C8_AtMostMaxParallel ==
    Cardinality({s \in Scenarios : Executing(s)}) <= max_parallel

\* max_parallel tasks are executing while a further scenario waits for the
\* next batch
C8_Witness ==
    /\ Cardinality({s \in Scenarios : task[s] \in {"running", "saved"}})
          = max_parallel
    /\ \E s \in Scenarios : task[s] = "none"

\* C9: after the run has ended, a scenario that ended failed has no stored
\* Result row.
C9_FailedHasNoResults ==
    pc = "done" =>
        \A s \in Scenarios : sc_status[s] = "failed" => results[s] = 0

\* C10: run() on a run without scenarios stores failed and returns without
\* spawning a task, and the run is never completed.
C10_EmptyRunFails ==
    /\ [][(total_scenarios = 0 /\ pc = "load" /\ pc' \notin {"load", "aborted"}) =>
             pc' = "done" /\ run_status' = "failed"]_vars
    /\ [](total_scenarios = 0 =>
             run_status # "completed" /\ pc \notin {"spawn", "gather", "final"})

\* run() has returned from a run without scenarios, which is failed
C10_Witness ==
    /\ total_scenarios = 0
    /\ pc = "done"
    /\ run_status = "failed"

\* ---- run_backtest_scenario: one scenario through the router ---------------

\* what a runner call ends with: the list of result rows it returns (their
\* number) or an exception ("database": an await on the session raised,
\* "runner": the runner's own code raised)
Returned(n) == [raised |-> "none", rows |-> n]
Raised(kind) == [raised |-> kind, rows |-> 0]
Ran(runner, outcome) ==
    [runner |-> runner, raised |-> outcome.raised, rows |-> outcome.rows]
NotRun == [runner |-> "none", raised |-> "none", rows |-> 0]

MaxCandles == 4

\* len(fvg_df) < 3 (ifvg_runner.py 451)
MinFvgCandles == 3

\* the no-candles case answered by an exception instead of an empty list
run_ifvg_scenario_no_data_raises(a) ==
    IF ~(a.date_start \/ a.year_start) THEN {Returned(0)}
    ELSE IF ~(a.date_end \/ a.year_end) THEN {Returned(0)}
    ELSE {Raised("database")} \cup
         (IF a.rows = 0 THEN {Raised("runner")}
          ELSE IF a.fvg_candles < MinFvgCandles THEN {Returned(0)}
          ELSE IF a.fvgs = 0 THEN {Returned(0)}
          ELSE IF a.inversions = 0 THEN {Returned(0)}
          ELSE IF a.trades = 0 THEN {Returned(0)}
          ELSE {Returned(n) : n \in 1..MaxRows})

\* run_ifvg_scenario (ifvg_runner.py 332-910), its returns in their order:
\* no start (364-366) and no end (367-369) log an error and return [];
\* the candle query may raise (420-421); no rows (425-427), fewer than three
\* candles of the FVG timeframe (451-453), no gap (458-460), no inversion
\* (503-505) and no trade (647-649) return []; with trades the aggregation
\* returns the strategy-level row and the rows of the groupings (651-910)
run_ifvg_scenario(a) ==
    IF ~(a.date_start \/ a.year_start) THEN {Returned(0)}
    ELSE IF ~(a.date_end \/ a.year_end) THEN {Returned(0)}
    ELSE {Raised("database")} \cup
         (IF a.rows = 0 THEN {Returned(0)}
          ELSE IF a.fvg_candles < MinFvgCandles THEN {Returned(0)}
          ELSE IF a.fvgs = 0 THEN {Returned(0)}
          ELSE IF a.inversions = 0 THEN {Returned(0)}
          ELSE IF a.trades = 0 THEN {Returned(0)}
          ELSE {Returned(n) : n \in 1..MaxRows})

\* the standard logic (runner.py 46-153) and run_daily_scorecard_scenario:
\* rows, or an exception of the parameters (KeyError, ValueError of line 84)
\* or of the queries
standard_scenario(a) ==
    {Raised("runner"), Raised("database")} \cup {Returned(n) : n \in 0..MaxRows}
run_daily_scorecard_scenario(a) ==
    {Raised("runner"), Raised("database")} \cup {Returned(n) : n \in 0..MaxRows}

\* run_backtest_scenario, lines 32-47: strategy_type "NULL" is the column left
\* unset (None), which `or` replaces by 'standard'; two comparisons pick the
\* iFVG and the daily scorecard runner, everything else goes on to the
\* standard logic
run_backtest_scenario(a) ==
    LET strategy_type == IF a.strategy_type = "NULL" THEN "standard"
                                                     ELSE a.strategy_type
    IN  IF strategy_type = "ifvg"
        THEN {Ran("ifvg", o) : o \in run_ifvg_scenario(a)}
        ELSE IF strategy_type = "daily_scorecard"
        THEN {Ran("daily_scorecard", o) : o \in run_daily_scorecard_scenario(a)}
        ELSE {Ran("standard", o) : o \in standard_scenario(a)}

\* BacktestScenario.strategy_type (orm.py 23-33) is a free string; "weekly" is
\* a value none of the runners is written for
StrategyTypes == {"NULL", "standard", "ifvg", "daily_scorecard", "weekly"}

\* the scenario row the task reads: its strategy_type, which of the range
\* parameters params holds, and what the candle store holds for it (rows of
\* the query, of them candles of the FVG timeframe, gaps found in those,
\* inversions of the gaps, trades entered on the inversions)
ScenarioRows ==
    {a \in [strategy_type : StrategyTypes,
            date_start : BOOLEAN, date_end : BOOLEAN,
            year_start : BOOLEAN, year_end : BOOLEAN,
            rows : 0..MaxCandles, fvg_candles : 0..MaxCandles,
            fvgs : 0..MaxCandles, inversions : 0..MaxCandles,
            trades : 0..MaxCandles] :
        /\ a.fvg_candles <= a.rows
        /\ a.fvgs + 2 <= a.fvg_candles \/ a.fvgs = 0
        /\ a.inversions <= a.fvgs
        /\ a.trades <= a.inversions}

\* _execute_single_scenario lines 188-200 with the router in place of an
\* unspecified runner: the outcome is run_backtest_scenario's; rows are saved
\* by save_results (which may raise) only when there are any
ExecuteRouted(s) ==
    /\ task[s] = "running"
    /\ \E o \in run_backtest_scenario(args) :
          /\ ret' = o
          /\ \/ /\ o.raised = "none"
                /\ results' = [results EXCEPT ![s] = results[s] + o.rows]
                /\ task' = [task EXCEPT ![s] = "saved"]
                /\ UNCHANGED <<sc_status, sc_error>>
             \/ /\ o.raised # "none" \/ o.rows > 0
                /\ ExecuteFailed(s)
    /\ UNCHANGED <<run_vars, db_run_vars, cancel_vars, total_scenarios, args>>

\* a run of one scenario whose task the batch loop has just created
ExecInit ==
    /\ total_scenarios = 1
    /\ run_status = "running"
    /\ completed_scenarios = 0
    /\ sc_status = [s \in Scenarios |-> "pending"]
    /\ sc_error = [s \in Scenarios |-> FALSE]
    /\ results = [s \in Scenarios |-> 0]
    /\ pc = "gather"
    /\ i = 1
    /\ completed = 0
    /\ failed = 0
    /\ task = [s \in Scenarios |-> "new"]
    /\ cancel_pc = "idle"
    /\ cancel_scenarios = {}
    /\ cancel_reply = "none"
    /\ args \in ScenarioRows
    /\ ret = NotRun

ExecNext ==
    \/ ExecuteClaim(1)
    \/ ExecuteRouted(1)
    \/ ExecuteComplete(1)

ExecSpec == ExecInit /\ [][ExecNext]_vars

\* ---- properties of the router and of the iFVG runner's early returns ------

KnownStrategyTypes == {"standard", "ifvg", "daily_scorecard"}
IsIfvg == args.strategy_type = "ifvg"
MissingRange ==
    \/ ~(args.date_start \/ args.year_start)
    \/ ~(args.date_end \/ args.year_end)

\* C11: a scenario whose strategy_type is set to a value that is none of
\* standard, ifvg and daily_scorecard is not executed by any runner, the
\* standard one included, and its task does not get past the runner call
C11_UnknownStrategyFailed ==
    args.strategy_type \notin KnownStrategyTypes \cup {"NULL"}
        => ret.runner = "none" /\ task[1] \notin {"saved", "ok"}

\* C12: an iFVG scenario whose parameters give no start or no end of the
\* range is failed: the runner call ends in an exception and the scenario
\* is never completed
C12_MissingRangeFails ==
    IsIfvg /\ MissingRange
        => /\ ret.runner = "ifvg" => ret.raised # "none"
           /\ sc_status[1] # "completed"

NoData ==
    \/ args.rows = 0
    \/ args.fvg_candles < MinFvgCandles
    \/ args.fvgs = 0
    \/ args.inversions = 0

\* C13: for an iFVG scenario with a range, when the store has no candles,
\* fewer than three candles of the FVG timeframe, no gap or no inversion, the
\* runner returns the empty list unless its query raised, no Result row is
\* stored, and the task goes on to write completed
C13_NoDataCompletesEmpty ==
    IsIfvg /\ ~MissingRange /\ NoData
        => /\ ret.runner = "ifvg" /\ ret.raised # "database"
                => ret = Ran("ifvg", Returned(0))
           /\ results[1] = 0
           /\ ret.runner = "ifvg" /\ ret.raised = "none"
                => task[1] \in {"saved", "ok", "err"}
           /\ task[1] = "ok" => sc_status[1] = "completed"

C13_Witness ==
    /\ IsIfvg /\ ~MissingRange
    /\ args.fvgs > 0 /\ args.inversions = 0
    /\ ret = Ran("ifvg", Returned(0))
    /\ task[1] = "ok"
    /\ sc_status[1] = "completed"
    /\ results[1] = 0

\* ---- properties of cancel_backtest_run ----------------------------------

Actionable == run_status \in {"pending", "running"}
CancelWrites ==
    \/ run_status' = "cancelled" /\ run_status # "cancelled"
    \/ \E s \in Scenarios :
          sc_status'[s] = "cancelled" /\ sc_status[s] # "cancelled"

\* C14: a cancel request goes on to its writes only when the status it read
\* is pending or running; a request that reads completed, failed or cancelled
\* is rejected in that step and leaves the run's and every scenario's status
\* as stored, and nothing is written cancelled outside the commit of a
\* request that passed this test
C14_CancelOnlyActionable ==
    [][/\ cancel_pc = "idle" /\ ~Actionable
            => cancel_pc' = "idle" /\ ~CancelWrites
       /\ cancel_pc = "idle" /\ ~Actionable /\ cancel_reply' # cancel_reply
            => /\ cancel_reply' = "rejected"
               /\ UNCHANGED <<run_status, sc_status>>
       /\ cancel_pc = "idle" /\ cancel_pc' # "idle" => Actionable
       /\ CancelWrites => cancel_pc = "selected"]_vars

C14_Witness ==
    /\ cancel_reply = "rejected"
    /\ cancel_pc = "idle"
    /\ run_status = "completed"
    /\ \E s \in Scenarios : sc_status[s] = "completed"

\* ---- fvg_detector.py: the detector functions, called on their own ---------

\* the orchestrator's variables, which the detector functions never touch
orchestrator_vars ==
    <<total_scenarios, run_vars, db_run_vars, db_scenario_vars, task_vars,
      cancel_vars>>

\* no run exists while a detector function is called on its own
NoRun ==
    /\ total_scenarios = 0
    /\ run_status = "pending"
    /\ completed_scenarios = 0
    /\ sc_status = <<>>
    /\ sc_error = <<>>
    /\ results = <<>>
    /\ pc = "created"
    /\ i = 0
    /\ completed = 0
    /\ failed = 0
    /\ task = <<>>
    /\ cancel_pc = "idle"
    /\ cancel_scenarios = {}
    /\ cancel_reply = "none"

\* ret before the call and after it
NoCall == [called |-> FALSE]
Result(value) == [called |-> TRUE, value |-> value]

MaxSeries == 4
MaxPrice == 2

\* ts_ny of the candles, in units of one minute, and prices in points
Times == 1..MaxSeries
Prices == 0..MaxPrice

\* df.sort_values('ts_ny'): the timestamps of a frame in ascending order
RECURSIVE sort_values(_)
sort_values(S) ==
    IF S = {} THEN <<>>
    ELSE LET first == CHOOSE t \in S : \A u \in S : t <= u
         IN  <<first>> \o sort_values(S \ {first})

\* a candle frame: one row per ts_ny, the key of the candle store
IsFrame(df, Row) == \E T \in SUBSET Times : df \in [T -> Row]

\* the loop of detect_fvgs compared with the candle before instead of the
\* candle two back
RECURSIVE fvgs_from_previous(_, _, _)
fvgs_from_previous(df, ts, k) ==
    IF k > Len(ts) THEN <<>>
    ELSE LET current == df[ts[k]]
             two_back == df[ts[k - 1]]
         IN  (IF current.low_price > two_back.high_price
                 THEN <<[timestamp |-> ts[k], direction |-> "bullish",
                         gap_low |-> two_back.high_price,
                         gap_high |-> current.low_price,
                         fvg_size |-> current.low_price - two_back.high_price]>>
              ELSE IF current.high_price < two_back.low_price
                 THEN <<[timestamp |-> ts[k], direction |-> "bearish",
                         gap_low |-> current.high_price,
                         gap_high |-> two_back.low_price,
                         fvg_size |-> two_back.low_price - current.high_price]>>
              ELSE <<>>)
             \o fvgs_from_previous(df, ts, k + 1)

\* detect_fvgs lines 37-64, `for i in range(2, len(df))` from position k of
\* the sorted frame on (positions count from 1 here): a bullish gap when the
\* low is above the high two candles back, else (elif) a bearish gap when the
\* high is below the low two candles back
RECURSIVE fvgs_from(_, _, _)
fvgs_from(df, ts, k) ==
    IF k > Len(ts) THEN <<>>
    ELSE LET current == df[ts[k]]
             two_back == df[ts[k - 2]]
         IN  (IF current.low_price > two_back.high_price
                 THEN <<[timestamp |-> ts[k], direction |-> "bullish",
                         gap_low |-> two_back.high_price,
                         gap_high |-> current.low_price,
                         fvg_size |-> current.low_price - two_back.high_price]>>
              ELSE IF current.high_price < two_back.low_price
                 THEN <<[timestamp |-> ts[k], direction |-> "bearish",
                         gap_low |-> current.high_price,
                         gap_high |-> two_back.low_price,
                         fvg_size |-> two_back.low_price - current.high_price]>>
              ELSE <<>>)
             \o fvgs_from(df, ts, k + 1)

\* detect_fvgs (fvg_detector.py 8-67): nothing for fewer than three candles,
\* else the frame is sorted by ts_ny and scanned from its third candle
detect_fvgs(candles_df) ==
    LET ts == sort_values(DOMAIN candles_df)
    IN  IF Len(ts) < 3 THEN <<>> ELSE fvgs_from(candles_df, ts, 3)

\* the columns detect_fvgs reads
HighLow == [high_price : Prices, low_price : Prices]

FvgInit ==
    /\ NoRun
    /\ IsFrame(args, HighLow)
    /\ ret = NoCall

CallDetectFvgs ==
    /\ ret = NoCall
    /\ ret' = Result(detect_fvgs(args))
    /\ UNCHANGED <<args, orchestrator_vars>>

FvgNext == CallDetectFvgs

FvgSpec == FvgInit /\ [][FvgNext]_vars

\* ---- properties of detect_fvgs -----------------------------------------

\* the place of the candle of time t in chronological order, from 1, and the
\* candle at place n
Place(df, t) == Cardinality({u \in DOMAIN df : u <= t})
CandleAt(df, n) == df[CHOOSE u \in DOMAIN df : Place(df, u) = n]
BullishAt(df, t) ==
    /\ Place(df, t) >= 3
    /\ df[t].low_price > CandleAt(df, Place(df, t) - 2).high_price
BearishAt(df, t) ==
    /\ Place(df, t) >= 3
    /\ df[t].high_price < CandleAt(df, Place(df, t) - 2).low_price

\* C15: detect_gaps returns nothing for fewer than three candles; otherwise
\* its gaps are in ascending order of time with at most one per candle, there
\* is one for every candle from the third on whose low is above the high two
\* candles back or whose high is below the low two candles back, and each gap
\* is bullish with gap_low = high[i-2], gap_high = low[i] or bearish with
\* gap_low = high[i], gap_high = low[i-2], has gap_high > gap_low and
\* fvg_size = gap_high - gap_low, and carries the time of candle i
C15_OneGapPerIndex ==
    ret.called =>
      LET fvgs == ret.value
      IN  /\ Cardinality(DOMAIN args) < 3 => fvgs = <<>>
          /\ \A j \in 1..(Len(fvgs) - 1) :
                fvgs[j].timestamp < fvgs[j + 1].timestamp
          /\ \A t \in DOMAIN args :
                BullishAt(args, t) \/ BearishAt(args, t)
                    => \E j \in DOMAIN fvgs : fvgs[j].timestamp = t
          /\ \A j \in DOMAIN fvgs :
                LET fvg == fvgs[j]
                    t == fvg.timestamp
                IN  /\ t \in DOMAIN args
                    /\ fvg.gap_high > fvg.gap_low
                    /\ fvg.fvg_size = fvg.gap_high - fvg.gap_low
                    /\ \/ /\ fvg.direction = "bullish"
                          /\ BullishAt(args, t)
                          /\ fvg.gap_low =
                               CandleAt(args, Place(args, t) - 2).high_price
                          /\ fvg.gap_high = args[t].low_price
                       \/ /\ fvg.direction = "bearish"
                          /\ BearishAt(args, t)
                          /\ fvg.gap_low = args[t].high_price
                          /\ fvg.gap_high =
                               CandleAt(args, Place(args, t) - 2).low_price

C15_Witness ==
    /\ ret.called
    /\ Len(ret.value) = 2
    /\ ret.value[1].direction = "bullish"
    /\ ret.value[2].direction = "bearish"
    /\ ret.value[1].fvg_size = 1

\* ---- detect_inversions (fvg_detector.py 70-152) --------------------------

MaxInvSeries == 3
MaxGaps == 2
MaxGapTime == 1
MaxWait == 2

\* the window end one candle too late
wait_window_end_one_more(fvg_ts, wait_candles, fvg_timeframe_minutes) ==
    fvg_ts + (wait_candles + 1) * fvg_timeframe_minutes

\* line 112: fvg_ts + timedelta(minutes=wait_candles * fvg_timeframe_minutes)
wait_window_end(fvg_ts, wait_candles, fvg_timeframe_minutes) ==
    fvg_ts + wait_candles * fvg_timeframe_minutes

\* lines 121-132: the candles of the window that invert the gap: for a bullish
\* gap a bearish candle (close < open) closing below gap_low, for any other
\* direction a bullish candle (close > open) closing above gap_high
Inverts(candle, fvg) ==
    IF fvg.direction = "bullish"
       THEN /\ candle.close_price < fvg.gap_low
            /\ candle.close_price < candle.open_price
       ELSE /\ candle.close_price > fvg.gap_high
            /\ candle.close_price > candle.open_price

\* the last inverting candle of the window instead of the first
take_last(inv_candles) == inv_candles[Len(inv_candles)]

\* line 136: inv_candles.iloc[0]
take_first(inv_candles) == inv_candles[1]

\* lines 105-150 for one gap: the candles with fvg_ts < ts_ny <= window end
\* (115), of them the inverting ones, and the record of the first, if any
inversion_of(fvg, df, ts, wait_candles, fvg_timeframe_minutes) ==
    LET fvg_ts == fvg.timestamp
        end == wait_window_end(fvg_ts, wait_candles, fvg_timeframe_minutes)
        InWindow(t) == t > fvg_ts /\ t <= end
        window_df == SelectSeq(ts, InWindow)
        IsInversion(t) == Inverts(df[t], fvg)
        inv_candles == SelectSeq(window_df, IsInversion)
    IN  IF Len(window_df) = 0 \/ Len(inv_candles) = 0 THEN <<>>
        ELSE LET inv_candle == take_first(inv_candles)
             IN  <<[fvg_ts |-> fvg_ts,
                    inv_ts |-> inv_candle,
                    inv_dir |-> IF fvg.direction = "bullish" THEN "bearish"
                                                            ELSE "bullish",
                    fvg_direction |-> fvg.direction,
                    gap_low |-> fvg.gap_low,
                    gap_high |-> fvg.gap_high,
                    fvg_size |-> fvg.fvg_size,
                    inv_open_price |-> df[inv_candle].open_price,
                    inv_close_price |-> df[inv_candle].close_price]>>

\* `for fvg in fvgs` from gap k of the list on
RECURSIVE inversions_from(_, _, _, _, _, _)
inversions_from(fvgs, df, ts, wait_candles, fvg_timeframe_minutes, k) ==
    IF k > Len(fvgs) THEN <<>>
    ELSE inversion_of(fvgs[k], df, ts, wait_candles, fvg_timeframe_minutes)
         \o inversions_from(fvgs, df, ts, wait_candles,
                            fvg_timeframe_minutes, k + 1)

\* detect_inversions: nothing for an empty frame (100-101), else the frame is
\* sorted by ts_ny (103) and every gap is looked at in the order of the list
detect_inversions(fvgs, candles_df, wait_candles, fvg_timeframe_minutes) ==
    IF DOMAIN candles_df = {} THEN <<>>
    ELSE inversions_from(fvgs, candles_df, sort_values(DOMAIN candles_df),
                         wait_candles, fvg_timeframe_minutes, 1)

\* the columns detect_inversions reads
OpenClose == [open_price : Prices, close_price : Prices]

\* gaps as detect_fvgs returns them: gap_low below gap_high, fvg_size their
\* difference
Gaps ==
    {g \in [timestamp : 0..MaxGapTime, direction : {"bullish", "bearish"},
            gap_low : Prices, gap_high : Prices, fvg_size : Prices] :
        g.gap_low < g.gap_high /\ g.fvg_size = g.gap_high - g.gap_low}

\* lists of gaps as detect_fvgs returns them: ascending, one per timestamp
GapLists ==
    {fvgs \in UNION {[1..n -> Gaps] : n \in 0..MaxGaps} :
        \A j \in 1..(Len(fvgs) - 1) : fvgs[j].timestamp < fvgs[j + 1].timestamp}

\* get_timeframe_minutes (223-234) of the timeframes '1m' and '5m'
TimeframeMinutes == {1, 5}

InvInit ==
    /\ NoRun
    /\ \E T \in SUBSET (1..MaxInvSeries) :
       \E candles_df \in [T -> OpenClose] :
       \E fvgs \in GapLists :
       \E wait_candles \in 0..MaxWait :
       \E fvg_timeframe_minutes \in TimeframeMinutes :
          args = [fvgs |-> fvgs, candles_df |-> candles_df,
                  wait_candles |-> wait_candles,
                  fvg_timeframe_minutes |-> fvg_timeframe_minutes]
    /\ ret = NoCall

CallDetectInversions ==
    /\ ret = NoCall
    /\ ret' = Result(detect_inversions(args.fvgs, args.candles_df,
                                       args.wait_candles,
                                       args.fvg_timeframe_minutes))
    /\ UNCHANGED <<args, orchestrator_vars>>

InvNext == CallDetectInversions

InvSpec == InvInit /\ [][InvNext]_vars

\* ---- properties of detect_inversions -----------------------------------

\* the inversions returned for a gap, and the gap's window
InversionsOf(fvg) ==
    {j \in DOMAIN ret.value : ret.value[j].fvg_ts = fvg.timestamp}
WindowOf(fvg) ==
    {t \in DOMAIN args.candles_df :
        /\ t > fvg.timestamp
        /\ t <= fvg.timestamp
                  + args.wait_candles * args.fvg_timeframe_minutes}
Opposite(direction) == IF direction = "bullish" THEN "bearish" ELSE "bullish"

\* C16: every inversion returned belongs to a gap of the list, is strictly
\* after the gap's timestamp and not later than that timestamp plus
\* wait_candles x timeframe_minutes; a gap none of whose window's candles
\* inverts it (the inverting candles, if any, come later) has no inversion
C16_InversionInsideWindow ==
    ret.called =>
      /\ \A j \in DOMAIN ret.value :
            LET inv == ret.value[j]
            IN  /\ \E k \in DOMAIN args.fvgs :
                      args.fvgs[k].timestamp = inv.fvg_ts
                /\ inv.inv_ts > inv.fvg_ts
                /\ inv.inv_ts <= inv.fvg_ts
                      + args.wait_candles * args.fvg_timeframe_minutes
      /\ \A k \in DOMAIN args.fvgs :
            LET fvg == args.fvgs[k]
            IN  (\A t \in WindowOf(fvg) : ~Inverts(args.candles_df[t], fvg))
                    => InversionsOf(fvg) = {}

C16_Witness ==
    /\ ret.called
    /\ args.wait_candles = 2
    /\ Len(args.fvgs) = 1
    /\ WindowOf(args.fvgs[1]) # {}
    /\ \E t \in DOMAIN args.candles_df :
          /\ t > args.fvgs[1].timestamp
          /\ t \notin WindowOf(args.fvgs[1])
          /\ Inverts(args.candles_df[t], args.fvgs[1])
    /\ ret.value = <<>>

\* the rule as the claim words it, and with the candle's own direction
ClosesThrough(candle, fvg) ==
    IF fvg.direction = "bullish" THEN candle.close_price < fvg.gap_low
                                 ELSE candle.close_price > fvg.gap_high
OpposingClose(candle, fvg) ==
    /\ ClosesThrough(candle, fvg)
    /\ IF fvg.direction = "bullish"
          THEN candle.close_price < candle.open_price
          ELSE candle.close_price > candle.open_price

\* what C17 says of one gap, for the candles Matching of its window
FirstMatchOnly(fvg, Matching) ==
    /\ Cardinality(InversionsOf(fvg)) <= 1
    /\ Matching # {} <=> InversionsOf(fvg) # {}
    /\ \A j \in InversionsOf(fvg) :
          /\ ret.value[j].inv_ts \in Matching
          /\ \A t \in Matching : ret.value[j].inv_ts <= t
          /\ ret.value[j].inv_dir = Opposite(fvg.direction)

\* C17 as stated: for every gap the inversion is the first candle of the
\* window that closes below gap_low (bullish gap) or above gap_high (bearish
\* gap), and there is one exactly when there is such a candle
C17_FirstClosingThrough ==
    ret.called =>
      \A k \in DOMAIN args.fvgs :
         LET fvg == args.fvgs[k]
         IN  FirstMatchOnly(fvg, {t \in WindowOf(fvg) :
                                    ClosesThrough(args.candles_df[t], fvg)})

\* C17 amended: the same, for the candles that close through the gap and
\* are themselves opposing candles (close below open for a bullish gap, close
\* above open for a bearish gap)
C17_FirstOpposingClose ==
    ret.called =>
      \A k \in DOMAIN args.fvgs :
         LET fvg == args.fvgs[k]
         IN  FirstMatchOnly(fvg, {t \in WindowOf(fvg) :
                                    OpposingClose(args.candles_df[t], fvg)})

C17_Witness ==
    /\ ret.called
    /\ Len(ret.value) = 2
    /\ ret.value[1].inv_ts = ret.value[2].inv_ts
    /\ ret.value[1].fvg_ts # ret.value[2].fvg_ts
    /\ \E t \in WindowOf(args.fvgs[1]) :
          /\ t > ret.value[1].inv_ts
          /\ OpposingClose(args.candles_df[t], args.fvgs[1])

\* ---- the trade path scan of run_ifvg_scenario (ifvg_runner.py 559-642) ----

MaxPath == 3

\* Python's None and a value that is not None, for exit_price and exit_ts
None == <<>>
Some(value) == <<value>>

\* the scan with the stop-loss test before the take-profit test
RECURSIVE scan_path_stop_first(_, _, _, _, _)
scan_path_stop_first(path_rows, k, inv_dir, stop_loss, take_profit) ==
    IF k > Len(path_rows)
       THEN [outcome |-> "timeout", exit_price |-> None, exit_ts |-> None]
    ELSE LET high == path_rows[k].high_price
             low == path_rows[k].low_price
             ts == path_rows[k].ts_ny
             loss == [outcome |-> "loss", exit_price |-> Some(stop_loss),
                      exit_ts |-> Some(ts)]
             win == [outcome |-> "win", exit_price |-> Some(take_profit),
                     exit_ts |-> Some(ts)]
             next == scan_path_stop_first(path_rows, k + 1, inv_dir,
                                          stop_loss, take_profit)
         IN  IF inv_dir = "bullish"
                THEN IF low <= stop_loss THEN loss
                     ELSE IF high >= take_profit THEN win
                     ELSE next
                ELSE IF high >= stop_loss THEN loss
                     ELSE IF low <= take_profit THEN win
                     ELSE next

\* lines 587-621, `for path_row in path_rows` from row k on: outcome starts
\* as timeout with exit_price and exit_ts None; a bullish trade wins at the
\* first row with high >= take_profit, tested first, and loses at the first
\* row with low <= stop_loss; a trade of any other direction wins with
\* low <= take_profit and loses with high >= stop_loss; the loop breaks there
RECURSIVE scan_path(_, _, _, _, _)
scan_path(path_rows, k, inv_dir, stop_loss, take_profit) ==
    IF k > Len(path_rows)
       THEN [outcome |-> "timeout", exit_price |-> None, exit_ts |-> None]
    ELSE LET high == path_rows[k].high_price
             low == path_rows[k].low_price
             ts == path_rows[k].ts_ny
             win == [outcome |-> "win", exit_price |-> Some(take_profit),
                     exit_ts |-> Some(ts)]
             loss == [outcome |-> "loss", exit_price |-> Some(stop_loss),
                      exit_ts |-> Some(ts)]
             next == scan_path(path_rows, k + 1, inv_dir, stop_loss,
                               take_profit)
         IN  IF inv_dir = "bullish"
                THEN IF high >= take_profit THEN win
                     ELSE IF low <= stop_loss THEN loss
                     ELSE next
                ELSE IF low <= take_profit THEN win
                     ELSE IF high >= stop_loss THEN loss
                     ELSE next

\* lines 562-642: the outcome, exit_price and exit_ts of the trade record; an
\* empty path is a timeout without a scan (562-584)
trade_outcome(path_rows, inv_dir, stop_loss, take_profit) ==
    IF Len(path_rows) = 0
       THEN [outcome |-> "timeout", exit_price |-> None, exit_ts |-> None]
       ELSE scan_path(path_rows, 1, inv_dir, stop_loss, take_profit)

\* the rows of the path query in the order it returns them, the k-th with
\* ts_ny = k and a low not above its high
PathRows ==
    UNION {{p \in [1..n -> [ts_ny : 1..MaxPath, high_price : Prices,
                            low_price : Prices]] :
              \A k \in 1..n : /\ p[k].ts_ny = k
                              /\ p[k].low_price <= p[k].high_price} :
           n \in 0..MaxPath}

TradeInit ==
    /\ NoRun
    /\ args \in [path_rows : PathRows, inv_dir : {"bullish", "bearish"},
                 stop_loss : Prices, take_profit : Prices]
    /\ ret = NoCall

CallTradeOutcome ==
    /\ ret = NoCall
    /\ ret' = Result(trade_outcome(args.path_rows, args.inv_dir,
                                   args.stop_loss, args.take_profit))
    /\ UNCHANGED <<args, orchestrator_vars>>

TradeNext == CallTradeOutcome

TradeSpec == TradeInit /\ [][TradeNext]_vars

\* ---- properties of the trade path scan --------------------------------

TouchesTakeProfit(row) ==
    IF args.inv_dir = "bullish" THEN row.high_price >= args.take_profit
                                ELSE row.low_price <= args.take_profit
TouchesStopLoss(row) ==
    IF args.inv_dir = "bullish" THEN row.low_price <= args.stop_loss
                                ELSE row.high_price >= args.stop_loss
Touching ==
    {k \in DOMAIN args.path_rows :
        TouchesTakeProfit(args.path_rows[k]) \/ TouchesStopLoss(args.path_rows[k])}

\* C18: the first row of the path that touches take-profit or stop-loss
\* decides the trade: a win at take_profit when it touches take-profit
\* (whether or not it touches stop-loss too), else a loss at stop_loss, with
\* that row's time as exit time; with no touching row, or an empty path, the
\* outcome is timeout with no exit price and no exit time
C18_FirstTouchDecides ==
    ret.called =>
      IF Touching = {}
         THEN ret.value = [outcome |-> "timeout", exit_price |-> None,
                           exit_ts |-> None]
         ELSE LET first == CHOOSE k \in Touching : \A j \in Touching : k <= j
                  row == args.path_rows[first]
              IN  /\ ret.value.exit_ts = Some(row.ts_ny)
                  /\ IF TouchesTakeProfit(row)
                        THEN /\ ret.value.outcome = "win"
                             /\ ret.value.exit_price = Some(args.take_profit)
                        ELSE /\ ret.value.outcome = "loss"
                             /\ ret.value.exit_price = Some(args.stop_loss)

C18_Witness ==
    /\ ret.called
    /\ ret.value.outcome = "win"
    /\ ret.value.exit_ts = Some(2)
    /\ TouchesTakeProfit(args.path_rows[2])
    /\ TouchesStopLoss(args.path_rows[2])
    /\ args.stop_loss # args.take_profit

\* ---- compute_rr (fvg_detector.py 155-220) ------------------------------

MaxPoints == 2
MaxMultiple == 2

\* the risk without the margin
risk_pts_gap_only(extra_margin, fvg_size) == fvg_size

\* line 206: risk_pts = extra_margin + fvg_size
risk_pts(extra_margin, fvg_size) == extra_margin + fvg_size

\* compute_rr: params['target_pts'] and params['stop_pts'] are read in fixed
\* mode only (191-192), where float(None) raises TypeError; any direction
\* other than 'bullish' takes the bearish branch (197, 214)
compute_rr(entry_price, fvg_low, fvg_high, direction, params) ==
    IF ~params.use_adaptive_rr
       THEN IF params.target_pts = None \/ params.stop_pts = None
               THEN [raised |-> "TypeError"]
               ELSE LET target_pts == params.target_pts[1]
                        stop_pts == params.stop_pts[1]
                    IN  IF direction = "bullish"
                           THEN [raised |-> "none",
                                 stop_loss |-> entry_price - stop_pts,
                                 take_profit |-> entry_price + target_pts]
                           ELSE [raised |-> "none",
                                 stop_loss |-> entry_price + stop_pts,
                                 take_profit |-> entry_price - target_pts]
       ELSE LET fvg_size == fvg_high - fvg_low
                extra_margin == params.extra_margin_pts
                rr_multiple == params.rr_multiple
                target_pts == risk_pts(extra_margin, fvg_size) * rr_multiple
            IN  IF direction = "bullish"
                   THEN [raised |-> "none",
                         stop_loss |-> fvg_low - extra_margin,
                         take_profit |-> entry_price + target_pts]
                   ELSE [raised |-> "none",
                         stop_loss |-> fvg_high + extra_margin,
                         take_profit |-> entry_price - target_pts]

\* rr_params as run_ifvg_scenario builds it (ifvg_runner.py 542-548):
\* target_pts and stop_pts are params.get(...), None when the scenario gives
\* none; extra_margin_pts and rr_multiple are always numbers
Optional(S) == {None} \cup {Some(x) : x \in S}
RrParams ==
    [use_adaptive_rr : BOOLEAN,
     target_pts : Optional(0..MaxPoints), stop_pts : Optional(0..MaxPoints),
     extra_margin_pts : 0..MaxPoints, rr_multiple : 1..MaxMultiple]

RrInit ==
    /\ NoRun
    /\ args \in [entry_price : Prices, fvg_low : Prices, fvg_high : Prices,
                 direction : {"bullish", "bearish"}, params : RrParams]
    /\ ret = NoCall

CallComputeRr ==
    /\ ret = NoCall
    /\ ret' = Result(compute_rr(args.entry_price, args.fvg_low, args.fvg_high,
                                args.direction, args.params))
    /\ UNCHANGED <<args, orchestrator_vars>>

RrNext == CallComputeRr

RrSpec == RrInit /\ [][RrNext]_vars

\* ---- properties of compute_rr -----------------------------------------

\* the points of fixed mode are numbers
FixedPointsGiven ==
    args.params.target_pts # None /\ args.params.stop_pts # None
Sign == IF args.direction = "bullish" THEN 1 ELSE -1

\* C19: compute_rr returns stop_loss and take_profit for every input whose
\* points are numbers, whatever their place relative to the entry price: in
\* fixed mode entry -/+ stop_pts and entry +/- target_pts (bullish/bearish),
\* in adaptive mode gap_low - extra_margin (bullish) or gap_high +
\* extra_margin (bearish) and entry +/- (extra_margin + gap_high - gap_low)
\* x rr_multiple
C19_StopAndTarget ==
    ret.called /\ (args.params.use_adaptive_rr \/ FixedPointsGiven) =>
      /\ ret.value.raised = "none"
      /\ IF args.params.use_adaptive_rr
            THEN /\ ret.value.stop_loss =
                      IF args.direction = "bullish"
                         THEN args.fvg_low - args.params.extra_margin_pts
                         ELSE args.fvg_high + args.params.extra_margin_pts
                 /\ ret.value.take_profit =
                      args.entry_price
                        + Sign * (args.params.extra_margin_pts
                                    + args.fvg_high - args.fvg_low)
                               * args.params.rr_multiple
            ELSE /\ ret.value.stop_loss =
                      args.entry_price - Sign * args.params.stop_pts[1]
                 /\ ret.value.take_profit =
                      args.entry_price + Sign * args.params.target_pts[1]

\* a bearish adaptive trade whose stop is below its entry and whose target is
\* above it: returned as computed
C19_Witness ==
    /\ ret.called
    /\ args.params.use_adaptive_rr
    /\ args.direction = "bearish"
    /\ args.params.extra_margin_pts > 0
    /\ args.fvg_high < args.fvg_low
    /\ ret.value.raised = "none"
    /\ ret.value.stop_loss < args.entry_price
    /\ ret.value.take_profit > args.entry_price

\* ---- detect_swing_highs_lows (fvg_detector.py 237-294) -------------------

MaxSwingSeries == 5
MaxLookback == 2

\* Series.max() and Series.min() of a slice that is not empty
series_max(S) == CHOOSE x \in S : \A y \in S : y <= x
series_min(S) == CHOOSE x \in S : \A y \in S : x <= y

\* the test against the candles before only
is_swing_high_left_only(current_high, left_highs, right_highs) ==
    current_high > left_highs

\* line 274: current_high > left_highs and current_high > right_highs
is_swing_high(current_high, left_highs, right_highs) ==
    current_high > left_highs /\ current_high > right_highs

\* line 286: current_low < left_lows and current_low < right_lows
is_swing_low(current_low, left_lows, right_lows) ==
    current_low < left_lows /\ current_low < right_lows

\* lines 268-291, `for i in range(lookback, len(df) - lookback)` from
\* position k of the sorted frame on (positions count from 1 here); the
\* slices df.loc[i-lookback:i-1] and df.loc[i+1:i+lookback] hold lookback
\* candles each; the swing high of a candle is appended before its swing low
RECURSIVE swings_from(_, _, _, _)
swings_from(df, ts, lookback, k) ==
    IF k > Len(ts) - lookback THEN <<>>
    ELSE LET left == (k - lookback)..(k - 1)
             right == (k + 1)..(k + lookback)
             current_high == df[ts[k]].high_price
             left_highs == series_max({df[ts[j]].high_price : j \in left})
             right_highs == series_max({df[ts[j]].high_price : j \in right})
             current_low == df[ts[k]].low_price
             left_lows == series_min({df[ts[j]].low_price : j \in left})
             right_lows == series_min({df[ts[j]].low_price : j \in right})
         IN  (IF is_swing_high(current_high, left_highs, right_highs)
                 THEN <<[timestamp |-> ts[k], price |-> current_high,
                         type |-> "high"]>>
                 ELSE <<>>)
             \o (IF is_swing_low(current_low, left_lows, right_lows)
                    THEN <<[timestamp |-> ts[k], price |-> current_low,
                            type |-> "low"]>>
                    ELSE <<>>)
             \o swings_from(df, ts, lookback, k + 1)

\* detect_swing_highs_lows: nothing for fewer than lookback * 2 + 1 candles
\* (261-263), else the frame is sorted by ts_ny (266) and scanned
detect_swing_highs_lows(candles_df, lookback) ==
    LET ts == sort_values(DOMAIN candles_df)
    IN  IF Len(ts) < lookback * 2 + 1 THEN <<>>
        ELSE swings_from(candles_df, ts, lookback, lookback + 1)

\* candles with a low not above the high
Candles == {c \in HighLow : c.low_price <= c.high_price}

\* swing_lookback is at least 1 (models/ifvg.py 29: ge=1)
SwingInit ==
    /\ NoRun
    /\ \E n \in 0..MaxSwingSeries :
       \E candles_df \in [1..n -> Candles] :
       \E lookback \in 1..MaxLookback :
          args = [candles_df |-> candles_df, lookback |-> lookback]
    /\ ret = NoCall

CallDetectSwings ==
    /\ ret = NoCall
    /\ ret' = Result(detect_swing_highs_lows(args.candles_df, args.lookback))
    /\ UNCHANGED <<args, orchestrator_vars>>

SwingNext == CallDetectSwings

SwingSpec == SwingInit /\ [][SwingNext]_vars

\* ---- properties of detect_swing_highs_lows -----------------------------

\* the places within lookback candles of place p, on both sides
Around(p) ==
    ((p - args.lookback)..(p - 1)) \cup ((p + 1)..(p + args.lookback))
\* place p is an interior index: lookback <= p - 1 < len - lookback
Interior(p) ==
    /\ args.lookback <= p - 1
    /\ p - 1 < Cardinality(DOMAIN args.candles_df) - args.lookback

\* C20: detect_swing_points returns nothing for fewer than 2 x lookback + 1
\* candles; otherwise every point it returns is the high or the low of a
\* candle, in ascending order of time, and a candle's high is reported iff
\* the candle is at an interior index and its high is strictly greater than
\* every high within lookback candles before and after it, its low iff it is
\* strictly less than every low there
C20_SwingPoints ==
    ret.called =>
      LET df == args.candles_df
          swings == ret.value
      IN  /\ Cardinality(DOMAIN df) < 2 * args.lookback + 1 => swings = <<>>
          /\ \A j \in DOMAIN swings :
                /\ swings[j].timestamp \in DOMAIN df
                /\ swings[j].type \in {"high", "low"}
          /\ \A j \in 1..(Len(swings) - 1) :
                \/ swings[j].timestamp < swings[j + 1].timestamp
                \/ /\ swings[j].timestamp = swings[j + 1].timestamp
                   /\ swings[j].type = "high" /\ swings[j + 1].type = "low"
          /\ \A t \in DOMAIN df :
                LET p == Place(df, t)
                IN  /\ (\E j \in DOMAIN swings :
                           swings[j].timestamp = t /\ swings[j].type = "high")
                       <=> /\ Interior(p)
                           /\ \A q \in Around(p) :
                                 CandleAt(df, q).high_price < df[t].high_price
                    /\ (\E j \in DOMAIN swings :
                           swings[j].timestamp = t /\ swings[j].type = "low")
                       <=> /\ Interior(p)
                           /\ \A q \in Around(p) :
                                 CandleAt(df, q).low_price > df[t].low_price
                    /\ \A j \in DOMAIN swings :
                          swings[j].timestamp = t =>
                             swings[j].price = IF swings[j].type = "high"
                                                  THEN df[t].high_price
                                                  ELSE df[t].low_price

C20_Witness ==
    /\ ret.called
    /\ args.lookback = 2
    /\ Len(ret.value) = 2
    /\ ret.value[1].timestamp = ret.value[2].timestamp
    /\ ret.value[1].type = "high"
    /\ ret.value[2].type = "low"

\* ---- is_fvg_at_liquidity_level (fvg_detector.py 297-356) -----------------

MaxLiqSteps == 2
MaxSwings == 2
MaxTolerance == 1

\* timedelta(hours=1) (line 325), in minutes
OneHour == 60

abs(x) == IF x < 0 THEN -x ELSE x

\* the window open to the past: only swings more than an hour later are
\* left out
in_time_window_after_only(swing_ts, fvg_timestamp) ==
    swing_ts - fvg_timestamp <= OneHour

\* line 329: abs((s['timestamp'] - fvg_timestamp).total_seconds())
\*           <= time_window.total_seconds()
in_time_window(swing_ts, fvg_timestamp) ==
    abs(swing_ts - fvg_timestamp) <= OneHour

\* is_fvg_at_liquidity_level: False without swing points (316-317) and
\* without swing points in the hour (327-333); a bullish gap is matched by a
\* swing high within tolerance_pts of gap_low (335-344), a gap of any other
\* direction by a swing low within tolerance_pts of gap_high (345-354);
\* False otherwise (356)
is_fvg_at_liquidity_level(fvg, swing_points, tolerance_pts) ==
    LET InWindow(s) == in_time_window(s.timestamp, fvg.timestamp)
        relevant_swings == SelectSeq(swing_points, InWindow)
    IN  IF Len(swing_points) = 0 THEN FALSE
        ELSE IF Len(relevant_swings) = 0 THEN FALSE
        ELSE IF fvg.direction = "bullish"
           THEN \E k \in DOMAIN relevant_swings :
                   /\ relevant_swings[k].type = "high"
                   /\ abs(relevant_swings[k].price - fvg.gap_low)
                         <= tolerance_pts
           ELSE \E k \in DOMAIN relevant_swings :
                   /\ relevant_swings[k].type = "low"
                   /\ abs(relevant_swings[k].price - fvg.gap_high)
                         <= tolerance_pts

\* timestamps of the candles of the one-hour timeframe, in minutes
LiqTimes == {OneHour * k : k \in 0..MaxLiqSteps}

\* gaps of detect_fvgs at those times
LiqGaps ==
    {g \in [timestamp : LiqTimes, direction : {"bullish", "bearish"},
            gap_low : Prices, gap_high : Prices] : g.gap_low < g.gap_high}

\* swing points as detect_swing_highs_lows returns them: in ascending order
\* of time, the high of a candle before its low
SwingPoints == [timestamp : LiqTimes, price : Prices, type : {"high", "low"}]
SwingLists ==
    {swings \in UNION {[1..n -> SwingPoints] : n \in 0..MaxSwings} :
        \A j \in 1..(Len(swings) - 1) :
           \/ swings[j].timestamp < swings[j + 1].timestamp
           \/ /\ swings[j].timestamp = swings[j + 1].timestamp
              /\ swings[j].type = "high" /\ swings[j + 1].type = "low"}

LiqInit ==
    /\ NoRun
    /\ args \in [fvg : LiqGaps, swing_points : SwingLists,
                 tolerance_pts : 0..MaxTolerance]
    /\ ret = NoCall

CallIsAtLiquidityLevel ==
    /\ ret = NoCall
    /\ ret' = Result(is_fvg_at_liquidity_level(args.fvg, args.swing_points,
                                               args.tolerance_pts))
    /\ UNCHANGED <<args, orchestrator_vars>>

LiqNext == CallIsAtLiquidityLevel

LiqSpec == LiqInit /\ [][LiqNext]_vars

\* ---- properties of is_fvg_at_liquidity_level ----------------------------

\* swing point s matches gap fvg with tolerance tol, as C21 words it
MatchesGap(s, fvg, tol) ==
    /\ s.timestamp >= fvg.timestamp - OneHour
    /\ s.timestamp <= fvg.timestamp + OneHour
    /\ \/ /\ fvg.direction = "bullish"
          /\ s.type = "high"
          /\ s.price - fvg.gap_low <= tol /\ fvg.gap_low - s.price <= tol
       \/ /\ fvg.direction = "bearish"
          /\ s.type = "low"
          /\ s.price - fvg.gap_high <= tol /\ fvg.gap_high - s.price <= tol

\* C21: is_at_liquidity_level answers true or false, and true exactly when
\* some swing point within one hour before or after the gap's timestamp
\* (the hour itself included) is a swing high within tolerance_pts of gap_low
\* for a bullish gap, a swing low within tolerance_pts of gap_high for a
\* bearish gap
C21_AtLiquidityLevel ==
    ret.called =>
      /\ ret.value \in BOOLEAN
      /\ ret.value <=> \E k \in DOMAIN args.swing_points :
                          MatchesGap(args.swing_points[k], args.fvg,
                                     args.tolerance_pts)

\* matched by the second swing point, exactly one hour before the gap and
\* exactly tolerance_pts off, after a first one that is too far back
C21_Witness ==
    /\ ret.called
    /\ ret.value = TRUE
    /\ Len(args.swing_points) = 2
    /\ args.tolerance_pts = 1
    /\ ~MatchesGap(args.swing_points[1], args.fvg, args.tolerance_pts)
    /\ args.swing_points[2].timestamp = args.fvg.timestamp - OneHour
    /\ args.swing_points[2].price # args.fvg.gap_low
    /\ args.swing_points[2].price # args.fvg.gap_high

\* ---- calculate_kpis (analyzer.py 6-63) ----------------------------------

MaxTrades == 2

\* round(a / b, digits) for b > 0 as Python rounds, to the nearest with ties
\* to even, given as the integer round(a / b * 10^digits) once a has been
\* scaled by 10^digits
round_half_even(a, b) ==
    LET q == a \div b
        r == a - q * b
    IN  IF 2 * r < b THEN q
        ELSE IF 2 * r > b THEN q + 1
        ELSE IF q % 2 = 0 THEN q ELSE q + 1

\* calculate_kpis.  win_rate_percent and profit_factor are rounded to two
\* decimals and given in hundredths, expectancy_r to four decimals and given
\* in ten-thousandths (lines 56, 61, 62).  total_trades = 0 returns the zero
\* set (28-37); r_ratio is target_pts / stop_pts if stop_pts > 0 else 0 (46);
\* profit_factor is (wins * target_pts) / (losses * stop_pts) if losses > 0
\* else inf (53), which divides by zero when losses > 0 and stop_pts = 0;
\* inf is returned as None (62)
calculate_kpis(total_trades, wins, losses, timeouts, target_pts, stop_pts) ==
    IF total_trades = 0
       THEN [raised |-> "none", win_rate_percent |-> 0, total_trades |-> 0,
             wins |-> 0, losses |-> 0, timeouts |-> 0, expectancy_r |-> 0,
             profit_factor |-> Some(0)]
    ELSE IF losses > 0 /\ losses * stop_pts = 0
       THEN [raised |-> "ZeroDivisionError"]
    ELSE [raised |-> "none",
          win_rate_percent |-> round_half_even(wins * 10000, total_trades),
          total_trades |-> total_trades,
          wins |-> wins,
          losses |-> losses,
          timeouts |-> timeouts,
          expectancy_r |->
             IF stop_pts > 0
                THEN round_half_even(
                        (wins * target_pts - losses * stop_pts) * 10000,
                        total_trades * stop_pts)
                ELSE round_half_even(-losses * 10000, total_trades),
          profit_factor |->
             IF losses > 0
                THEN Some(round_half_even(wins * target_pts * 100,
                                          losses * stop_pts))
                ELSE None]

KpiInit ==
    /\ NoRun
    /\ args \in [total_trades : 0..MaxTrades, wins : 0..MaxTrades,
                 losses : 0..MaxTrades, timeouts : 0..MaxTrades,
                 target_pts : 0..MaxPoints, stop_pts : 0..MaxPoints]
    /\ ret = NoCall

CallCalculateKpis ==
    /\ ret = NoCall
    /\ ret' = Result(calculate_kpis(args.total_trades, args.wins, args.losses,
                                    args.timeouts, args.target_pts,
                                    args.stop_pts))
    /\ UNCHANGED <<args, orchestrator_vars>>

KpiNext == CallCalculateKpis

KpiSpec == KpiInit /\ [][KpiNext]_vars

\* ---- properties of calculate_kpis ---------------------------------------

\* C22: for all non-negative counts and points calculate_kpis returns a KPI
\* set and raises no division error; with total = 0 the set is all zero
C22_NoDivisionError ==
    ret.called =>
      /\ ret.value.raised = "none"
      /\ args.total_trades = 0 =>
            /\ ret.value.win_rate_percent = 0
            /\ ret.value.expectancy_r = 0
            /\ ret.value.profit_factor = Some(0)

\* C23: with total > 0, no losses and wins > 0 profit_factor is the
\* sentinel None; with losses > 0 it is a number, (wins x target_pts) /
\* (losses x stop_pts) to the two decimals it is reported with
C23_ProfitFactor ==
    ret.called /\ args.total_trades > 0 =>
      /\ args.losses = 0 /\ args.wins > 0 =>
            ret.value.raised = "none" /\ ret.value.profit_factor = None
      /\ args.losses > 0 =>
            /\ ret.value.raised = "none"
            /\ ret.value.profit_factor # None
            /\ LET hundredths == ret.value.profit_factor[1]
                   num == args.wins * args.target_pts * 100
                   den == args.losses * args.stop_pts
               IN  /\ 2 * (hundredths * den - num) <= den
                   /\ 2 * (num - hundredths * den) <= den

\* ---- properties of _execute_single_scenario's writes ---------------------

\* C24: whenever the scenario is completed its runner has returned without
\* an exception and every row it returned is stored; the completed write is
\* made by the task only from the state in which save_results has committed
C24_CompletedAfterSave ==
    /\ [](sc_status[1] = "completed" =>
             /\ ret.runner # "none"
             /\ ret.raised = "none"
             /\ results[1] = ret.rows)
    /\ [][sc_status'[1] = "completed" /\ sc_status[1] # "completed" =>
             task[1] = "saved" /\ results'[1] = results[1]]_vars

C24_Witness ==
    /\ sc_status[1] = "completed"
    /\ ret.rows > 0
    /\ results[1] = ret.rows

(***************************************************************************)
(* The except clause of _execute_single_scenario, runner.py 209-226, with   *)
(* the text it stores.  A message is modelled by its length; args holds the *)
(* length of str(e) of the exception the try block has just raised, and the *)
(* task's position tells the step that raised it: "new" the fetch or the     *)
(* running commit (176-185), "running" a runner or save_results (188-200),  *)
(* "saved" the completed commit (203-204).                                   *)
(***************************************************************************)
MaxMessage == 502

\* line 210: the slice [:500]
ErrorLimit == 500

MessageLengths == 0..MaxMessage

error_msg_whole(message) == message

\* line 210: error_msg = str(e)[:500]
error_msg(message) == Min(message, ErrorLimit)

\* lines 209-226: rollback, re-select, status = "failed", error = error_msg,
\* commit; a raise of any of these awaits is caught and logged (223-224) and
\* leaves the stored row as it was.  Line 226 returns error_msg either way.
ExecuteExcept(s) ==
    /\ task[s] \in {"new", "running", "saved"}
    /\ ~ret.called
    /\ ExecuteFailed(s)
    /\ ret' = Result([error    |-> IF sc_status'[s] = "failed"
                                   THEN Some(error_msg(args.message))
                                   ELSE None,
                      returned |-> error_msg(args.message)])
    /\ UNCHANGED <<run_vars, db_run_vars, cancel_vars, total_scenarios, args>>

ExceptInit ==
    /\ total_scenarios = 1
    /\ run_status = "running"
    /\ completed_scenarios = 0
    /\ task \in [Scenarios -> {"new", "running", "saved"}]
    /\ sc_status = [s \in Scenarios |->
                      IF task[s] = "new" THEN "pending" ELSE "running"]
    /\ sc_error = [s \in Scenarios |-> FALSE]
    /\ results \in [Scenarios -> 0..MaxRows]
    /\ \A s \in Scenarios : task[s] # "saved" => results[s] = 0
    /\ pc = "gather"
    /\ i = 1
    /\ completed = 0
    /\ failed = 0
    /\ cancel_pc = "idle"
    /\ cancel_scenarios = {}
    /\ cancel_reply = "none"
    /\ args \in [message : MessageLengths]
    /\ ret = NoCall

ExceptNext == ExecuteExcept(1)

ExceptSpec == ExceptInit /\ [][ExceptNext]_vars

C26_ProgressNeverDecreases ==
    /\ [][/\ completed_scenarios' >= completed_scenarios
          /\ completed_scenarios' # completed_scenarios =>
                completed_scenarios' = completed']_vars
    /\ [](completed_scenarios <= completed)

\* three results were processed, two of them successes stored one after the
\* other, and the final write stored the same value again
C26_Witness ==
    /\ pc = "done"
    /\ failed = 1
    /\ completed = 2
    /\ completed_scenarios = 2

(***************************************************************************)
(* Progress of a run.  run() and the scenario tasks are coroutines of one   *)
(* asyncio event loop: a coroutine that can take its next step is resumed,  *)
(* each await returning or raising, so every step of run() and of a task is *)
(* weakly fair.  So are the steps of the cancel handler once a request has  *)
(* arrived; the arrival of a request, which a user makes, is not.           *)
(***************************************************************************)
Fairness ==
    /\ WF_vars(RunStart)
    /\ WF_vars(RunLoad)
    /\ WF_vars(RunSpawn)
    /\ WF_vars(RunProcess)
    /\ WF_vars(RunFinal)
    /\ \A s \in 1..MaxScenarios :
          /\ WF_vars(s \in Scenarios /\ ExecuteClaim(s))
          /\ WF_vars(s \in Scenarios /\ ExecuteRun(s))
          /\ WF_vars(s \in Scenarios /\ ExecuteComplete(s))
    /\ WF_vars(CancelSelect)
    /\ WF_vars(CancelCommit)

FairSpec == Spec /\ Fairness

RunEnded == run_status \in {"completed", "failed", "cancelled"}

AllSettled == Scenarios # {} /\ \A s \in Scenarios : Settled(s)

\* C27: a run that run() has set to running and whose scenario tasks have all
\* settled eventually has status completed, failed or cancelled, also when a
\* progress write of run() raises.
C27_RunningRunEnds == (run_status = "running" /\ AllSettled) ~> RunEnded

(***************************************************************************)
(* From inversions to trades: run_ifvg_scenario, ifvg_runner.py 495-642.    *)
(* The stop, the target and the outcome of a trade are compute_rr and       *)
(* trade_outcome above; a trade is kept here with its three timestamps and  *)
(* its direction.  All candles are of one day, so a time of day is a         *)
(* timestamp.                                                                *)
(***************************************************************************)
MaxEntrySeries == 2
MaxEntryTime == 3

EntryTimes == 1..MaxEntryTime

\* an entry candle taken at the inversion timestamp or after it
is_at_or_after(ts_ny, inv_ts) == ts_ny >= inv_ts

\* line 523: entry_df['ts_ny'] > inv_ts
is_after(ts_ny, inv_ts) == ts_ny > inv_ts

\* lines 534-539: the entry time is before time_start or after time_end
time_filtered(entry_time, time_start, time_end) ==
    \/ time_start # None /\ entry_time < time_start[1]
    \/ time_end # None /\ entry_time > time_end[1]

\* lines 511-642 for one inversion: the entry-timeframe candles after the
\* inversion (523), none: continue (524-525); the first of them is the entry
\* (527-529); the time filter may skip it (534-539); else one trade is
\* appended (564-583 or 623-642)
trade_of(inv, entry_ts, time_start, time_end) ==
    LET After(t) == is_after(t, inv.inv_ts)
        entry_candles == SelectSeq(entry_ts, After)
    IN  IF Len(entry_candles) = 0 THEN <<>>
        ELSE IF time_filtered(entry_candles[1], time_start, time_end) THEN <<>>
        ELSE <<[direction |-> inv.inv_dir,
                entry_ts |-> entry_candles[1],
                fvg_ts |-> inv.fvg_ts,
                inv_ts |-> inv.inv_ts]>>

\* `for inv in inversions` from inversion k of the list on
RECURSIVE trades_from(_, _, _, _, _)
trades_from(inversions, entry_ts, time_start, time_end, k) ==
    IF k > Len(inversions) THEN <<>>
    ELSE trade_of(inversions[k], entry_ts, time_start, time_end)
         \o trades_from(inversions, entry_ts, time_start, time_end, k + 1)

\* lines 495-642: detect_inversions on the gaps and the candles of the gap
\* timeframe, none: return (503-505); entry_df sorted by ts_ny (509); the loop
ifvg_trades(fvgs, fvg_df, wait_candles, fvg_timeframe_minutes, entry_df, time_start, time_end) ==
    LET inversions == detect_inversions(fvgs, fvg_df, wait_candles,
                                        fvg_timeframe_minutes)
    IN  IF Len(inversions) = 0 THEN <<>>
        ELSE trades_from(inversions, sort_values(entry_df), time_start,
                         time_end, 1)

EntryInit ==
    /\ NoRun
    /\ \E T \in SUBSET (1..MaxEntrySeries) :
       \E fvg_df \in [T -> OpenClose] :
       \E fvgs \in GapLists :
       \E wait_candles \in 0..MaxWait :
       \E fvg_timeframe_minutes \in TimeframeMinutes :
       \E entry_df \in SUBSET EntryTimes :
          args = [fvgs |-> fvgs, fvg_df |-> fvg_df,
                  wait_candles |-> wait_candles,
                  fvg_timeframe_minutes |-> fvg_timeframe_minutes,
                  entry_df |-> entry_df]
    /\ ret = NoCall

\* the trades of one scenario, for any time filter of its parameters; the
\* path query of a trade may raise (559), which ends the scenario without
\* trades
CallIfvgTrades ==
    /\ ret = NoCall
    /\ \E time_start \in Optional(EntryTimes), time_end \in Optional(EntryTimes) :
          LET trades == ifvg_trades(args.fvgs, args.fvg_df, args.wait_candles,
                                    args.fvg_timeframe_minutes, args.entry_df,
                                    time_start, time_end)
          IN  \/ ret' = Result([raised |-> FALSE, trades |-> trades])
              \/ /\ Len(trades) > 0
                 /\ ret' = Result([raised |-> TRUE, trades |-> <<>>])
    /\ UNCHANGED <<args, orchestrator_vars>>

EntryNext == CallIfvgTrades

EntrySpec == EntryInit /\ [][EntryNext]_vars

\* the inversions of the call, as detect_inversions returns them
EntryInversions ==
    detect_inversions(args.fvgs, args.fvg_df, args.wait_candles,
                      args.fvg_timeframe_minutes)

EntriesAfter(inv_ts) == {t \in args.entry_df : t > inv_ts}

\* C28: every trade has fvg_ts < inv_ts < entry_ts, belongs to an inversion
\* that was detected, and its entry is the earliest candle of the entry
\* timeframe after the inversion timestamp; an inversion with no such candle
\* has no trade.
C28_EntryAfterInversion ==
    ret.called =>
        /\ \A j \in DOMAIN ret.value.trades :
              LET trade == ret.value.trades[j]
              IN  /\ trade.fvg_ts < trade.inv_ts
                  /\ trade.inv_ts < trade.entry_ts
                  /\ trade.entry_ts \in args.entry_df
                  /\ \A t \in EntriesAfter(trade.inv_ts) : trade.entry_ts <= t
                  /\ \E k \in DOMAIN EntryInversions :
                        /\ EntryInversions[k].fvg_ts = trade.fvg_ts
                        /\ EntryInversions[k].inv_ts = trade.inv_ts
        /\ \A k \in DOMAIN EntryInversions :
              EntriesAfter(EntryInversions[k].inv_ts) = {} =>
                 \A j \in DOMAIN ret.value.trades :
                    ret.value.trades[j].fvg_ts # EntryInversions[k].fvg_ts

\* two inversions: the first has a trade, entered at the candle after its
\* inversion although the entry timeframe has a candle at the inversion
\* timestamp too; the second has no later candle and no trade
C28_Witness ==
    /\ ret.called
    /\ Len(EntryInversions) = 2
    /\ Len(ret.value.trades) = 1
    /\ ret.value.trades[1].inv_ts \in args.entry_df
    /\ EntriesAfter(EntryInversions[2].inv_ts) = {}

(***************************************************************************)
(* The liquidity filter of run_ifvg_scenario, ifvg_runner.py 462-491,       *)
(* between detect_fvgs and detect_inversions.  The candles of the liquidity *)
(* timeframe are one hour apart.                                             *)
(***************************************************************************)
MaxLiqCandles == 3
MaxLiqGaps == 2

\* the gaps handed to detect_inversions
Passed(fvgs) == [returned |-> FALSE, fvgs |-> fvgs]

\* `return []` of line 491
NoTrades == [returned |-> TRUE, fvgs |-> <<>>]

\* the gaps of the list that are at a liquidity level (481-484)
filtered_fvgs(fvgs, swing_points, tolerance_pts) ==
    LET AtLevel(fvg) == is_fvg_at_liquidity_level(fvg, swing_points,
                                                  tolerance_pts)
    IN  SelectSeq(fvgs, AtLevel)

\* the filter applied also when no swing point was detected
liquidity_filter_always(fvgs, liquidity_enabled, liquidity_timeframe, liquidity_df, swing_lookback, tolerance_pts) ==
    IF ~(liquidity_enabled /\ liquidity_timeframe # None) THEN Passed(fvgs)
    ELSE LET swing_points == detect_swing_highs_lows(liquidity_df,
                                                     swing_lookback)
             filtered == filtered_fvgs(fvgs, swing_points, tolerance_pts)
         IN  IF Len(filtered) = 0 THEN NoTrades ELSE Passed(filtered)

\* lines 463-491: without the two parameters the gaps go on as they are; so
\* they do with fewer than swing_lookback * 2 + 1 candles of the liquidity
\* timeframe (469-471) and with no swing point detected (477-478); else only
\* the gaps at a liquidity level go on (481-487), and with none of them the
\* scenario returns no rows (489-491)
liquidity_filter(fvgs, liquidity_enabled, liquidity_timeframe, liquidity_df, swing_lookback, tolerance_pts) ==
    IF ~(liquidity_enabled /\ liquidity_timeframe # None) THEN Passed(fvgs)
    ELSE IF Cardinality(DOMAIN liquidity_df) < swing_lookback * 2 + 1
       THEN Passed(fvgs)
    ELSE LET swing_points == detect_swing_highs_lows(liquidity_df,
                                                     swing_lookback)
             filtered == filtered_fvgs(fvgs, swing_points, tolerance_pts)
         IN  IF Len(swing_points) = 0 THEN Passed(fvgs)
             ELSE IF Len(filtered) = 0 THEN NoTrades
             ELSE Passed(filtered)

\* the lists of gaps that reach the filter: not empty (458-460), ascending
LiqGapLists ==
    {fvgs \in UNION {[1..n -> LiqGaps] : n \in 1..MaxLiqGaps} :
        \A j \in 1..(Len(fvgs) - 1) : fvgs[j].timestamp < fvgs[j + 1].timestamp}

\* the candles of the liquidity timeframe, one per hour
LiqFrames ==
    UNION {[{OneHour * k : k \in 1..n} -> Candles] : n \in 0..MaxLiqCandles}

FilterInit ==
    /\ NoRun
    /\ args \in [fvgs : LiqGapLists,
                 liquidity_enabled : BOOLEAN,
                 liquidity_timeframe : Optional({"1h"}),
                 liquidity_df : LiqFrames,
                 swing_lookback : 1..MaxLookback,
                 tolerance_pts : 0..MaxTolerance]
    /\ ret = NoCall

CallLiquidityFilter ==
    /\ ret = NoCall
    /\ ret' = Result(liquidity_filter(args.fvgs, args.liquidity_enabled,
                                      args.liquidity_timeframe,
                                      args.liquidity_df, args.swing_lookback,
                                      args.tolerance_pts))
    /\ UNCHANGED <<args, orchestrator_vars>>

FilterNext == CallLiquidityFilter

FilterSpec == FilterInit /\ [][FilterNext]_vars

\* ---- properties of the liquidity filter ----------------------------------

FilterOn == args.liquidity_enabled /\ args.liquidity_timeframe # None

\* the swing points of the liquidity timeframe
FilterSwings == detect_swing_highs_lows(args.liquidity_df, args.swing_lookback)

\* gap fvg is at a liquidity level of those swing points, as C21 words it
AtSwing(fvg) ==
    \E k \in DOMAIN FilterSwings :
       MatchesGap(FilterSwings[k], fvg, args.tolerance_pts)

MaxAggTrades == 2
MaxYears == 2
MaxMonths == 2
MaxWeekdays == 2
MaxRangeDays == 400

\* line 698: date_range_days >= 30
MinYearRangeDays == 30

Directions == <<"bullish", "bearish">>

\* lines 674-679 and their repetitions: the counts of a sub-frame, each the
\* length of the frame's rows with that outcome
totals(trades) ==
    LET IsWin(t) == t.outcome = "win"
        IsLoss(t) == t.outcome = "loss"
        IsTimeout(t) == t.outcome = "timeout"
    IN  [total_trades |-> Len(trades),
         wins |-> Len(SelectSeq(trades, IsWin)),
         losses |-> Len(SelectSeq(trades, IsLoss)),
         timeouts |-> Len(SelectSeq(trades, IsTimeout))]

\* sorted(trades_df[column].unique())
unique_years(trades) == sort_values({trades[k].year : k \in DOMAIN trades})
unique_months(trades) == sort_values({trades[k].month : k \in DOMAIN trades})
unique_dows(trades) ==
    sort_values({trades[k].day_of_week : k \in DOMAIN trades})

\* the trades of a year and of all years before it
year_trades_up_to(trades, year) ==
    LET InYear(t) == t.year <= year IN SelectSeq(trades, InYear)

\* line 703: trades_df[trades_df['year'] == year]
year_trades(trades, year) ==
    LET InYear(t) == t.year = year IN SelectSeq(trades, InYear)

\* lines 726-751: the year_dow rows of a year from weekday k of the list on,
\* an empty group skipped
RECURSIVE dow_rows(_, _, _, _)
dow_rows(of_year, year, dows, k) ==
    IF k > Len(dows) THEN <<>>
    ELSE LET OnDay(t) == t.day_of_week = dows[k]
             dow_trades == SelectSeq(of_year, OnDay)
         IN  (IF Len(dow_trades) = 0 THEN <<>>
              ELSE <<[level |-> "year_dow", year |-> year,
                      day_of_week |-> dows[k],
                      totals |-> totals(dow_trades)]>>)
             \o dow_rows(of_year, year, dows, k + 1)

\* lines 754-779: the year_direction rows of a year, an empty group skipped
RECURSIVE year_direction_rows(_, _, _)
year_direction_rows(of_year, year, k) ==
    IF k > Len(Directions) THEN <<>>
    ELSE LET Towards(t) == t.direction = Directions[k]
             dir_trades == SelectSeq(of_year, Towards)
         IN  (IF Len(dir_trades) = 0 THEN <<>>
              ELSE <<[level |-> "year_direction", year |-> year,
                      direction |-> Directions[k],
                      totals |-> totals(dir_trades)]>>)
             \o year_direction_rows(of_year, year, k + 1)

\* lines 702-779: the rows of the years from year k of the list on
RECURSIVE year_rows(_, _, _)
year_rows(trades, years, k) ==
    IF k > Len(years) THEN <<>>
    ELSE LET of_year == year_trades(trades, years[k])
         IN  <<[level |-> "year", year |-> years[k],
                totals |-> totals(of_year)]>>
             \o dow_rows(of_year, years[k], unique_dows(trades), 1)
             \o year_direction_rows(of_year, years[k], 1)
             \o year_rows(trades, years, k + 1)

\* lines 786-811: the year_month rows of one year from month k of its list on
RECURSIVE month_rows_of(_, _, _, _)
month_rows_of(trades, year, months, k) ==
    IF k > Len(months) THEN <<>>
    ELSE LET InMonth(t) == t.year = year /\ t.month = months[k]
             month_trades == SelectSeq(trades, InMonth)
         IN  (IF Len(month_trades) = 0 THEN <<>>
              ELSE <<[level |-> "year_month", year |-> year,
                      month |-> months[k],
                      totals |-> totals(month_trades)]>>)
             \o month_rows_of(trades, year, months, k + 1)

\* lines 785-811: the year_month rows from year k of the list on
RECURSIVE month_rows(_, _, _)
month_rows(trades, years, k) ==
    IF k > Len(years) THEN <<>>
    ELSE month_rows_of(trades, years[k],
                       unique_months(year_trades(trades, years[k])), 1)
         \o month_rows(trades, years, k + 1)

\* lines 814-838: the direction rows, an empty group skipped
RECURSIVE direction_rows(_, _)
direction_rows(trades, k) ==
    IF k > Len(Directions) THEN <<>>
    ELSE LET Towards(t) == t.direction = Directions[k]
             dir_trades == SelectSeq(trades, Towards)
         IN  (IF Len(dir_trades) = 0 THEN <<>>
              ELSE <<[level |-> "direction", direction |-> Directions[k],
                      totals |-> totals(dir_trades)]>>)
             \o direction_rows(trades, k + 1)

\* lines 671-841: the strategy row; for a date range of 30 days or more the
\* rows of the years, else the year_month rows when the trades are of more
\* than one month and the direction rows.  date_range_days is never None
\* here: a scenario without date_start or date_end has returned before.
result_rows(trades, date_range_days) ==
    LET group_by_year == date_range_days >= MinYearRangeDays
    IN  <<[level |-> "strategy", totals |-> totals(trades)]>>
        \o (IF group_by_year
               THEN year_rows(trades, unique_years(trades), 1)
               ELSE (IF Len(unique_months(trades)) > 1
                        THEN month_rows(trades, unique_years(trades), 1)
                        ELSE <<>>)
                    \o direction_rows(trades, 1))

\* the trades of the loop of lines 511-642
AggTrades ==
    [year : 1..MaxYears, month : 1..MaxMonths, day_of_week : 0..(MaxWeekdays - 1),
     direction : {"bullish", "bearish"}, outcome : {"win", "loss", "timeout"}]

\* (end_dt - start_dt).days + 1 of line 664
DateRangeDays == {MinYearRangeDays - 1, MinYearRangeDays, MaxRangeDays}

\* at least one trade (647-649); in a range of 30 days or less two trades of
\* different years are of different months, December and January
AggInit ==
    /\ NoRun
    /\ \E n \in 1..MaxAggTrades :
       \E trades \in [1..n -> AggTrades] :
       \E date_range_days \in DateRangeDays :
          /\ date_range_days <= MinYearRangeDays =>
                \A j, k \in 1..n :
                   trades[j].year # trades[k].year =>
                      trades[j].month # trades[k].month
          /\ args = [trades |-> trades, date_range_days |-> date_range_days]
    /\ ret = NoCall

CallResultRows ==
    /\ ret = NoCall
    /\ ret' = Result(result_rows(args.trades, args.date_range_days))
    /\ UNCHANGED <<args, orchestrator_vars>>

AggNext == CallResultRows

AggSpec == AggInit /\ [][AggNext]_vars

\* ---- properties of the result rows ----------------------------------------

Counts == {"total_trades", "wins", "losses", "timeouts"}

\* the sum of count c over the rows that satisfy Keep
RowSum(rows, Keep(_), c) ==
    LET sum[k \in 0..Len(rows)] ==
           IF k = 0 THEN 0
           ELSE sum[k - 1] + (IF Keep(rows[k]) THEN rows[k].totals[c] ELSE 0)
    IN  sum[Len(rows)]

IsStrategy(row) == row.level = "strategy"
IsYear(row) == row.level = "year"
IsYearMonth(row) == row.level = "year_month"
IsDirection(row) == row.level = "direction"

RowsBalance(rows) ==
    \A j \in DOMAIN rows :
       rows[j].totals.total_trades
          = rows[j].totals.wins + rows[j].totals.losses + rows[j].totals.timeouts

\* every count of the rows that satisfy Keep sums to that of the strategy row
SumsToStrategy(rows, Keep(_)) ==
    \A c \in Counts : RowSum(rows, Keep, c) = RowSum(rows, IsStrategy, c)

\* for each year row, the rows of that year at the given level sum to it
YearSplits(rows, level) ==
    \A j \in DOMAIN rows :
       rows[j].level = "year" =>
          LET OfYear(row) == row.level = level /\ row.year = rows[j].year
          IN  \A c \in Counts : RowSum(rows, OfYear, c) = rows[j].totals[c]

\* C30 as stated: every row has total_trades = wins + losses + timeouts, the
\* year rows sum to the strategy row and the year_direction rows of a year sum
\* to the row of that year, in each of the four counts.
C30_RowsSumAtEachLevel ==
    ret.called =>
        /\ RowsBalance(ret.value)
        /\ SumsToStrategy(ret.value, IsYear)
        /\ YearSplits(ret.value, "year_direction")

\* C30 amended: every row has total_trades = wins + losses + timeouts and
\* there is one strategy row, counting every trade; for a date range of 30
\* days or more the year rows sum to the strategy row and the year_direction
\* rows and the year_dow rows of a year sum to the row of that year; for a
\* shorter range there is no year row: the direction rows sum to the strategy
\* row, and so do the year_month rows when there are any.
C30_RowsSumAtEachLevelOfTheRange ==
    ret.called =>
        /\ RowsBalance(ret.value)
        /\ Len(SelectSeq(ret.value, IsStrategy)) = 1
        /\ ret.value[1].totals.total_trades = Len(args.trades)
        /\ IF args.date_range_days >= 30
              THEN /\ SumsToStrategy(ret.value, IsYear)
                   /\ YearSplits(ret.value, "year_direction")
                   /\ YearSplits(ret.value, "year_dow")
                   /\ \A j \in DOMAIN ret.value :
                         ret.value[j].level \notin {"year_month", "direction"}
              ELSE /\ SumsToStrategy(ret.value, IsDirection)
                   /\ \/ SelectSeq(ret.value, IsYearMonth) = <<>>
                      \/ SumsToStrategy(ret.value, IsYearMonth)
                   /\ \A j \in DOMAIN ret.value :
                         ret.value[j].level \in
                            {"strategy", "year_month", "direction"}

\* two trades of two years and of the two directions, a win and a loss: a
\* strategy row of two trades, two year rows and under each its direction row
C30_Witness ==
    /\ ret.called
    /\ args.date_range_days >= 30
    /\ ret.value[1].totals = [total_trades |-> 2, wins |-> 1, losses |-> 1,
                              timeouts |-> 0]
    /\ Len(SelectSeq(ret.value, IsYear)) = 2
    /\ \E j \in DOMAIN ret.value :
          /\ ret.value[j].level = "year_direction"
          /\ ret.value[j].direction = "bearish"
          /\ ret.value[j].totals.losses = 1

====
